---- MODULE Spec2Model ----
(***************************************************************************)
(* A model of jokio/rpc: the path-parameter algorithm, the typed client    *)
(* (createClient / makeRequest) and the Express route registrar            *)
(* (registerExpressRoutes / createRouteHandler).                           *)
(*                                                                         *)
(* Strings that the code scans (path templates, parameter names, URLs)     *)
(* are sequences of lexemes: "/" and ":" are the two characters the        *)
(* regular expression /:([^/]+)/g tells apart, every other lexeme is a run *)
(* of one or more ordinary characters.                                     *)
(***************************************************************************)
EXTENDS Integers, Sequences, FiniteSets, TLC

VARIABLES
    template,    \* PathSpec: the `path` argument of replacePathParams
    params,      \* PathSpec: the `params` argument of replacePathParams
    pathResult,  \* PathSpec: what replacePathParams did with them
    clientCfg,   \* the options createClient was called with
    calls,       \* per client call: its arguments, position, effects, outcome
    serverCfg,   \* the options in the handlers object of registerExpressRoutes, and
                 \* whether the table it was handed has the catch-all route
    router,      \* the layers registerExpressRoutes added, in order
    reqs         \* per inbound request: its inputs, position, effects

pathVars == <<template, params, pathResult>>

clientVars == <<clientCfg, calls>>

serverVars == <<serverCfg, router, reqs>>

vars == <<template, params, pathResult, clientCfg, calls, serverCfg, router, reqs>>

----------------------------------------------------------------------------
(* JavaScript values.  A string is its sequence of lexemes; an object is  *)
(* known by an identity, its properties are read through PropertyOf.       *)

Undefined == [type |-> "undefined"]

JsNull == [type |-> "null"]

BoolVal(b) == [type |-> "boolean", bool |-> b]

ObjVal(id) == [type |-> "object", id |-> id]

StrVal(s) == [type |-> "string", str |-> s]

NumVal(n) == [type |-> "number", num |-> n]

Digit == <<"0", "1", "2", "3", "4", "5", "6", "7", "8", "9">>

RECURSIVE DecimalString(_)
DecimalString(n) ==
    IF n < 10 THEN <<Digit[n + 1]>>
    ELSE DecimalString(n \div 10) \o <<Digit[(n % 10) + 1]>>

(* String(v).                                                              *)
StringOf(v) ==
    CASE v.type = "string" -> v.str
      [] v.type = "number" -> DecimalString(v.num)
      [] v.type = "boolean" -> IF v.bool THEN <<"true">> ELSE <<"false">>
      [] v.type = "object" -> <<"[object Object]">>
      [] OTHER -> <<v.type>>

(* ToBoolean(v): what `if (v)` and `v && ...` test.                        *)
Truthy(v) ==
    CASE v.type = "undefined" -> FALSE
      [] v.type = "null" -> FALSE
      [] v.type = "boolean" -> v.bool
      [] v.type = "number" -> v.num # 0
      [] v.type = "string" -> v.str # <<>>
      [] OTHER -> TRUE

Nullish(v) == v.type \in {"undefined", "null"}

(* options?.field                                                          *)
OptionalChain(obj, field) ==
    IF Nullish(obj) THEN Undefined ELSE obj[field]

(* Property names every object literal inherits from Object.prototype.     *)
ObjectPrototypeNames ==
    { <<"constructor">>, <<"toString">>, <<"valueOf">>, <<"hasOwnProperty">>,
      <<"isPrototypeOf">>, <<"propertyIsEnumerable">>, <<"toLocaleString">>,
      <<"__proto__">> }

(* `name in obj` for a plain object: own keys and inherited ones.          *)
HasProperty(obj, name) ==
    name \in DOMAIN obj \/ name \in ObjectPrototypeNames

(* obj[name] for an inherited name, as String shows it: the Object         *)
(* constructor, the prototype object, or a method of the prototype.        *)
InheritedMember(name) ==
    CASE name = <<"constructor">> -> StrVal(<<"function ", "Object", "() { [native code] }">>)
      [] name = <<"__proto__">> -> StrVal(<<"[object Object]">>)
      [] OTHER -> StrVal(<<"function ">> \o name \o <<"() { [native code] }">>)

GetProperty(obj, name) ==
    IF name \in DOMAIN obj THEN obj[name] ELSE InheritedMember(name)

----------------------------------------------------------------------------
(* replacePathParams                                                       *)

(* Last index of the maximal run of non-"/" lexemes starting at i.         *)
RECURSIVE RunEnd(_, _)
RunEnd(path, i) ==
    IF i < Len(path) /\ path[i + 1] # "/" THEN RunEnd(path, i + 1) ELSE i

(* Whether /:([^/]+)/ matches at index i.                                  *)
MatchesAt(path, i) ==
    /\ i < Len(path)
    /\ path[i] = ":"
    /\ path[i + 1] # "/"

(* The successive matches of the global regular expression, left to right: *)
(* each is [from, to, name], the next search starts after the match.       *)
RECURSIVE MatchesFrom(_, _)
MatchesFrom(path, i) ==
    IF i > Len(path) THEN <<>>
    ELSE IF MatchesAt(path, i)
         THEN LET e == RunEnd(path, i + 1)
              IN  <<[from |-> i, to |-> e, name |-> SubSeq(path, i + 1, e)]>>
                  \o MatchesFrom(path, e + 1)
         ELSE MatchesFrom(path, i + 1)

(* new Set<string>() filled by the exec loop: insertion order, no          *)
(* duplicates.                                                             *)
RECURSIVE SetInsertAll(_, _)
SetInsertAll(acc, ms) ==
    IF ms = <<>> THEN acc
    ELSE LET n == Head(ms).name
         IN  SetInsertAll(
                 IF \E k \in 1..Len(acc) : acc[k] = n THEN acc ELSE Append(acc, n),
                 Tail(ms))

ParamNames(path) == SetInsertAll(<<>>, MatchesFrom(path, 1))

ParamNameSet(path) == { ParamNames(path)[k] : k \in 1..Len(ParamNames(path)) }

(* The `for ... of paramNames` loop: the first name, in insertion order,   *)
(* that is not `in params`; <<>> (no name is empty) when there is none.    *)
RECURSIVE FirstMissing(_, _)
FirstMissing(names, obj) ==
    IF names = <<>> THEN <<>>
    ELSE IF ~HasProperty(obj, Head(names)) THEN Head(names)
         ELSE FirstMissing(Tail(names), obj)

(* path.replace(/:([^/]+)/g, (_, name) => String(params[name])): one pass, *)
(* the replacement text is not scanned again.                              *)
RECURSIVE ReplaceFromRescan(_, _, _)
ReplaceFromRescan(path, obj, i) ==
    IF i > Len(path) THEN <<>>
    ELSE IF MatchesAt(path, i)
         THEN LET e == RunEnd(path, i + 1)
                  v == StringOf(GetProperty(obj, SubSeq(path, i + 1, e)))
              IN  IF v = SubSeq(path, i, e)
                  THEN v \o ReplaceFromRescan(path, obj, e + 1)
                  ELSE ReplaceFromRescan(v \o SubSeq(path, e + 1, Len(path)), obj, 1)
         ELSE <<path[i]>> \o ReplaceFromRescan(path, obj, i + 1)

RECURSIVE ReplaceFrom(_, _, _)
ReplaceFrom(path, obj, i) ==
    IF i > Len(path) THEN <<>>
    ELSE IF MatchesAt(path, i)
         THEN LET e == RunEnd(path, i + 1)
              IN  StringOf(GetProperty(obj, SubSeq(path, i + 1, e)))
                  \o ReplaceFrom(path, obj, e + 1)
         ELSE <<path[i]>> \o ReplaceFrom(path, obj, i + 1)

(* new Error(`Missing required parameter: "${paramName}" for path "${path}"`) *)
MissingParameterMessage(name, path) ==
    <<"Missing required parameter", ":", " \"">> \o name \o <<"\" for path \"">>
        \o path \o <<"\"">>

MissingParameterError(name, path) ==
    [name |-> "Error", message |-> MissingParameterMessage(name, path)]

Returned(v) == [kind |-> "returned", value |-> v]

Threw(e) == [kind |-> "threw", error |-> e]

replacePathParams(path, obj) ==
    LET missing == FirstMissing(ParamNames(path), obj)
    IN  IF missing # <<>>
        THEN Threw(MissingParameterError(missing, path))
        ELSE Returned(StrVal(ReplaceFrom(path, obj, 1)))

----------------------------------------------------------------------------
(* ExtractRouteParams: the parameter names the type derives from a         *)
(* template.  A template literal pattern `${infer A}:${infer B}/${infer    *)
(* C}` is matched by taking the first `:`, then the first `/` after it.    *)

(* The first index at or after `from` where s holds ch; 0 when none does.  *)
FirstIndex(s, ch, from) ==
    IF \E i \in from..Len(s) : s[i] = ch
    THEN CHOOSE i \in from..Len(s) : s[i] = ch /\ \A m \in from..(i - 1) : s[m] # ch
    ELSE 0

RECURSIVE ExtractRouteParams(_)
ExtractRouteParams(T) ==
    LET colon == FirstIndex(T, ":", 1)
        slash == IF colon = 0 THEN 0 ELSE FirstIndex(T, "/", colon + 1)
        Param == SubSeq(T, colon + 1, slash - 1)
        Rest == SubSeq(T, slash + 1, Len(T))
    IN  IF colon = 0 THEN {}
        ELSE IF slash = 0 THEN {SubSeq(T, colon + 1, Len(T))}
        ELSE IF Rest # <<>> /\ Rest[1] = ":"
        THEN {Param} \cup ExtractRouteParams(<<"/">> \o Rest)
        ELSE IF \E k \in 1..(Len(Rest) - 1) : Rest[k] = "/" /\ Rest[k + 1] = ":"
        THEN {Param} \cup ExtractRouteParams(<<"/">> \o Rest)
        ELSE {Param}

----------------------------------------------------------------------------
(* PathSpec: replacePathParams applied to every template and every params  *)
(* object within the bounds.                                               *)

MaxLen == 6

PathLexemes == {"/", ":", "a", "b"}

RECURSIVE SeqsOfLen(_, _)
SeqsOfLen(S, n) ==
    IF n = 0 THEN { <<>> }
    ELSE { Append(s, x) : s \in SeqsOfLen(S, n - 1), x \in S }

SeqsUpTo(S, n) == UNION { SeqsOfLen(S, k) : k \in 0..n }

PathKeys == { <<"a">>, <<"b">> }

PathValues == { StrVal(<<"x">>), StrVal(<<":", "a">>), NumVal(10) }

PathParamObjects == UNION { [K -> PathValues] : K \in SUBSET PathKeys }

Pending == [kind |-> "pending"]


----------------------------------------------------------------------------
(* The collaborators the code is handed: objects, JSON text, schemas.      *)

(* The objects that travel as bodies, query parameters and payloads.       *)
ObjectIds == {"user", "userExtra", "userBadEmail", "httpError", "queryOk", "queryBad"}

(* obj.message                                                             *)
PropertyOf(v, field) ==
    IF v.type = "object" /\ v.id = "httpError" /\ field = "message"
    THEN StrVal(<<"not found">>)
    ELSE Undefined

ObjectJson(id) ==
    CASE id = "user" -> <<"{\"name\"", ":", "\"Jo\",\"email\"", ":", "\"jo@x.com\"}">>
      [] id = "userExtra" ->
            <<"{\"name\"", ":", "\"Jo\",\"email\"", ":", "\"jo@x.com\",\"admin\"", ":", "true}">>
      [] id = "userBadEmail" -> <<"{\"name\"", ":", "\"Jo\",\"email\"", ":", "\"not-an-email\"}">>
      [] id = "httpError" -> <<"{\"message\"", ":", "\"not found\"}">>
      [] id = "queryOk" -> <<"{\"include\"", ":", "\"profile\"}">>
      [] OTHER -> <<"{\"include\"", ":", "\"\"}">>

(* JSON.stringify(v), v not undefined.                                     *)
JSONStringify(v) ==
    CASE v.type = "null" -> <<"null">>
      [] v.type = "boolean" -> IF v.bool THEN <<"true">> ELSE <<"false">>
      [] v.type = "number" -> DecimalString(v.num)
      [] v.type = "string" -> <<"\"">> \o v.str \o <<"\"">>
      [] OTHER -> ObjectJson(v.id)

JsonValues ==
    {JsNull, BoolVal(FALSE), NumVal(0), StrVal(<<>>)} \cup { ObjVal(id) : id \in ObjectIds }

SyntaxError == [name |-> "SyntaxError", message |-> <<"Unexpected token">>]

TypeErrorOfUndefined ==
    [name |-> "TypeError", message |-> <<"Cannot read properties of undefined">>]

(* response.json(): the value whose JSON text the body is, or a SyntaxError. *)
JSONParse(text) ==
    IF \E v \in JsonValues : JSONStringify(v) = text
    THEN Returned(CHOOSE v \in JsonValues : JSONStringify(v) = text)
    ELSE Threw(SyntaxError)

(* new URLSearchParams(obj).toString()                                     *)
URLSearchParamsString(v) ==
    IF v.id = "queryOk" THEN <<"include=profile">> ELSE <<"include=">>

(* The zod schemas of the route table.                                     *)
SchemaType(schema) == IF schema = "Void" THEN "void" ELSE "object"

SchemaAccepts(schema, v) ==
    CASE schema = "Void" -> v.type = "undefined"
      [] schema = "UserQuery" -> v.type = "object" /\ v.id = "queryOk"
      [] OTHER -> v.type = "object" /\ v.id \in {"user", "userExtra"}

(* What parse returns for an accepted value: z.object strips unknown keys. *)
SchemaOutputRaw(schema, v) == v

SchemaOutput(schema, v) ==
    IF v.type = "object" /\ v.id = "userExtra" THEN ObjVal("user") ELSE v

ZodError(schema, v) == [name |-> "ZodError", schema |-> schema, input |-> v]

(* schema.parse(v)                                                         *)
SchemaParse(schema, v) ==
    IF SchemaAccepts(schema, v) THEN Returned(SchemaOutput(schema, v))
    ELSE Threw(ZodError(schema, v))

----------------------------------------------------------------------------
(* The route table handed to createClient and registerExpressRoutes.       *)

Methods == {"GET", "POST", "PUT", "PATCH", "DELETE", "QUERY"}

UserPath == <<"/", "user">>

UserIdPath == <<"/", "user", "/", ":", "id">>

PostPath == <<"/", "user", "/", ":", "id", "/", "post", "/", ":", "postId">>

TypePath == <<"/", "type", "/", ":", "constructor">>

CatchAllPath == <<"/", ":", "key">>

(* A Partial<RouterConfig>: PATCH is left out.  The server is registered   *)
(* with the whole table or with the table without its CatchAllPath route.  *)
Routes ==
    [ GET    |-> (UserIdPath :> [queryParams |-> "UserQuery", response |-> "UserResponse"])
                 @@ (TypePath :> [response |-> "UserResponse"]),
      POST   |-> (UserPath :> [body |-> "UserBody", response |-> "UserResponse"]),
      PUT    |-> (UserIdPath :> [body |-> "UserBody", response |-> "UserResponse"]),
      DELETE |-> (PostPath :> [body |-> "UserBody", response |-> "Void"]),
      QUERY  |-> (UserPath :> [body |-> "UserBody", queryParams |-> "UserQuery",
                               response |-> "UserResponse"])
                 @@ (CatchAllPath :> [body |-> "UserBody", response |-> "UserResponse"]) ]

(* routes[method] is defined and holds the path key.                       *)
HasRoute(method, path) ==
    method \in DOMAIN Routes /\ path \in DOMAIN Routes[method]

(* routeConfig?.field, routeConfig being (routes[method] as any)[path].    *)
Declares(method, path, field) ==
    HasRoute(method, path) /\ field \in DOMAIN Routes[method][path]

----------------------------------------------------------------------------
(* createClient                                                            *)

BaseUrl == <<"https", ":", "/", "/", "api.test">>

(* `validate = true` in the destructuring of the options: the default is   *)
(* taken when the option is undefined.                                     *)
ValidateAlways(cfg) == TRUE

ValidateDefaultOff(cfg) ==
    IF cfg.validate.type = "undefined" THEN FALSE ELSE cfg.validate.bool

Validate(cfg) ==
    IF cfg.validate.type = "undefined" THEN TRUE ELSE cfg.validate.bool

NoApplied == [outcome |-> Returned(Undefined), applied |-> <<>>]

Application(schema, v) == [schema |-> schema, input |-> v]

(* handleValidation: the outcome and the schemas it applied, in order.     *)
HandleValidation(cfg, method, path, body, options) ==
    IF ~Validate(cfg) THEN NoApplied
    ELSE IF method \notin DOMAIN Routes
    THEN [outcome |-> Threw(TypeErrorOfUndefined), applied |-> <<>>]
    ELSE
      LET qp == OptionalChain(options, "queryParams")
          checkBody == Truthy(body) /\ Declares(method, path, "body")
          checkQuery == Truthy(qp) /\ Declares(method, path, "queryParams")
          bodySchema == Routes[method][path].body
          querySchema == Routes[method][path].queryParams
          a1 == IF checkBody THEN <<Application(bodySchema, body)>> ELSE <<>>
      IN  IF checkBody /\ SchemaParse(bodySchema, body).kind = "threw"
          THEN [outcome |-> SchemaParse(bodySchema, body), applied |-> a1]
          ELSE IF checkQuery
          THEN [outcome |-> IF SchemaParse(querySchema, qp).kind = "threw"
                            THEN SchemaParse(querySchema, qp)
                            ELSE Returned(Undefined),
                applied |-> Append(a1, Application(querySchema, qp))]
          ELSE [outcome |-> Returned(Undefined), applied |-> a1]

EmptyObject == [k \in {} |-> Undefined]

(* buildUrl: the URL, or what replacePathParams threw.                     *)
BuildUrl(path, options) ==
    LET qp == OptionalChain(options, "queryParams")
        queryString == IF Truthy(qp) THEN <<"?">> \o URLSearchParamsString(qp) ELSE <<>>
        p == OptionalChain(options, "params")
        finalPath == IF \E i \in 1..Len(path) : path[i] = ":"
                     THEN replacePathParams(path, IF Nullish(p) THEN EmptyObject ELSE p.props)
                     ELSE Returned(StrVal(path))
    IN  IF finalPath.kind = "threw" THEN finalPath
        ELSE Returned(StrVal(BaseUrl \o finalPath.value.str \o queryString))

(* { "Content-Type": "application/json", ...(await getHeaders()) }         *)
MergeHeadersDefaultWins(extra) ==
    [ k \in {"Content-Type"} \cup DOMAIN extra |->
        IF k = "Content-Type" THEN "application/json" ELSE extra[k] ]

MergeHeaders(extra) ==
    [ k \in {"Content-Type"} \cup DOMAIN extra |->
        IF k \in DOMAIN extra THEN extra[k] ELSE "application/json" ]

(* The RequestInit given to the transport; body is set when the argument   *)
(* is not undefined.                                                       *)
FetchOptionsTruthyBody(method, headers, body) ==
    [ method |-> method,
      headers |-> MergeHeaders(headers),
      hasBody |-> Truthy(body),
      body |-> IF Truthy(body) THEN JSONStringify(body) ELSE <<>> ]

FetchOptions(method, headers, body) ==
    [ method |-> method,
      headers |-> MergeHeaders(headers),
      hasBody |-> body.type # "undefined",
      body |-> IF body.type # "undefined" THEN JSONStringify(body) ELSE <<>> ]

(* routeConfig.response.type, with routeConfig = (routes[method] as        *)
(* any)[path]: reading it throws when the method or the path key is not in *)
(* the route table.                                                        *)
ReadResponseTypeOptional(method, path) ==
    IF method \notin DOMAIN Routes THEN Threw(TypeErrorOfUndefined)
    ELSE IF Declares(method, path, "response")
    THEN Returned(StrVal(<<SchemaType(Routes[method][path].response)>>))
    ELSE Returned(Undefined)

ReadResponseType(method, path) ==
    IF Declares(method, path, "response")
    THEN Returned(StrVal(<<SchemaType(Routes[method][path].response)>>))
    ELSE Threw(TypeErrorOfUndefined)

(* routeConfig.response.type === "void"                                    *)
IsVoidNever(schema) == FALSE

IsVoid(schema) == SchemaType(schema) = "void"

(* response.ok                                                             *)
ResponseOkShared(response) ==
    /\ response.status >= 200 /\ response.status <= 299
    /\ \A c \in DOMAIN calls : calls[c].response.status <= 299

ResponseOkAlways(response) == response.status >= 200

ResponseOk(response) == response.status >= 200 /\ response.status <= 299

(* new Error(message)                                                      *)
NewError(message) ==
    [name |-> "Error",
     message |-> IF message.type = "undefined" THEN <<>> ELSE StringOf(message)]

Handled(outcome, jsonReads, textReads, log, applied) ==
    [outcome |-> outcome, jsonReads |-> jsonReads, textReads |-> textReads,
     log |-> log, applied |-> applied]

(* handleResponse: the outcome, how often the body was read as JSON and as *)
(* text, what console.debug printed, and the schemas applied.              *)
HandleResponse(cfg, method, path, response, options) ==
    LET parsed == JSONParse(response.body)
    IN  IF ~ResponseOk(response)
        THEN IF parsed.kind = "threw" THEN Handled(parsed, 1, 0, <<>>, <<>>)
             ELSE LET log == IF Truthy(OptionalChain(options, "debug"))
                             THEN <<parsed.value>> ELSE <<>>
                  IN  IF Nullish(parsed.value)
                      THEN Handled(Threw(TypeErrorOfUndefined), 1, 0, log, <<>>)
                      ELSE Handled(Threw(NewError(PropertyOf(parsed.value, "message"))),
                                   1, 0, log, <<>>)
        ELSE IF ReadResponseType(method, path).kind = "threw"
        THEN Handled(ReadResponseType(method, path), 0, 0, <<>>, <<>>)
        ELSE IF Declares(method, path, "response") /\ IsVoid(Routes[method][path].response)
        THEN Handled(Returned(Undefined), 0, 1, <<>>, <<>>)
        ELSE IF parsed.kind = "threw" THEN Handled(parsed, 1, 0, <<>>, <<>>)
        ELSE IF Validate(cfg) /\ Declares(method, path, "response")
        THEN Handled(SchemaParse(Routes[method][path].response, parsed.value), 1, 0, <<>>,
                     <<Application(Routes[method][path].response, parsed.value)>>)
        ELSE Handled(Returned(parsed.value), 1, 0, <<>>, <<>>)

----------------------------------------------------------------------------
(* Client calls: makeRequest, one action per stretch between two awaits.   *)

Calls == {"c1"}

NoResponse == [status |-> 0, body |-> <<>>]

IdleCall ==
    [ pc |-> "idle", method |-> "", path |-> <<>>, body |-> Undefined,
      options |-> Undefined, url |-> <<>>, headerCalls |-> 0, fetchCalls |-> <<>>,
      resolved |-> <<>>, response |-> NoResponse, jsonReads |-> 0, textReads |-> 0, log |-> <<>>,
      applied |-> <<>>, outcome |-> Pending ]

(* What callers pass.                                                      *)
Bodies ==
    { Undefined, JsNull, NumVal(0), StrVal(<<>>), BoolVal(FALSE),
      ObjVal("user"), ObjVal("userBadEmail") }

ParamsObj(props) == [type |-> "object", props |-> props]

ParamsChoices ==
    { Undefined,
      ParamsObj(EmptyObject),
      ParamsObj(<<"id">> :> StrVal(<<"42">>)),
      ParamsObj((<<"id">> :> StrVal(<<"42">>)) @@ (<<"postId">> :> NumVal(7))) }

OptionsChoices ==
    { Undefined } \cup
    { [type |-> "object", params |-> p, queryParams |-> q, debug |-> d] :
        p \in ParamsChoices,
        q \in {Undefined, ObjVal("queryOk"), ObjVal("queryBad")},
        d \in {Undefined, BoolVal(TRUE)} }

CallPaths == {UserPath, UserIdPath, PostPath, TypePath}

ClientConfigs ==
    { [validate |-> v, debug |-> d, getHeaders |-> g] :
        v \in {Undefined, BoolVal(TRUE), BoolVal(FALSE)},
        d \in {Undefined, BoolVal(TRUE)},
        g \in {"default", "custom"} }

(* What the configured getHeaders may resolve to.                          *)
HeaderResults(cfg) ==
    IF cfg.getHeaders = "default" THEN { [k \in {} |-> ""] }
    ELSE { ("Authorization" :> "Bearer t"), ("Content-Type" :> "text/plain") }

(* What the transport may answer.                                          *)
Responses ==
    { [status |-> st, body |-> b] :
        st \in {200, 404},
        b \in { JSONStringify(ObjVal("user")), JSONStringify(ObjVal("userExtra")),
                JSONStringify(ObjVal("httpError")), <<"<html>">> } }

HeadersError == [name |-> "Error", message |-> <<"getHeaders failed">>]

NetworkError == [name |-> "TypeError", message |-> <<"fetch failed">>]

(* makeRequest up to `await getHeaders()`.                                 *)
Call(c, method, path, body, options) ==
    /\ calls[c].pc = "idle"
    /\ LET v == HandleValidation(clientCfg, method, path, body, options)
           u == BuildUrl(path, options)
           args == [calls[c] EXCEPT !.method = method, !.path = path, !.body = body,
                                    !.options = options, !.applied = v.applied]
       IN  calls' = [calls EXCEPT ![c] =
               IF v.outcome.kind = "threw"
               THEN [args EXCEPT !.pc = "done", !.outcome = v.outcome]
               ELSE IF u.kind = "threw"
               THEN [args EXCEPT !.pc = "done", !.outcome = u]
               ELSE [args EXCEPT !.pc = "awaitHeaders", !.url = u.value.str,
                                 !.headerCalls = @ + 1]]
    /\ UNCHANGED <<clientCfg, pathVars, serverVars>>

(* client.GET(path, options) and client.M(path, body, options).            *)
ClientCall(c) ==
    /\ calls[c].pc = "idle"
    /\ \E method \in Methods, path \in CallPaths, options \in OptionsChoices :
          \E body \in IF method = "GET" THEN {Undefined} ELSE Bodies :
              Call(c, method, path, body, options)

(* getHeaders resolved: the transport is invoked.                          *)
HeadersResolve(c) ==
    /\ calls[c].pc = "awaitHeaders"
    /\ \E h \in HeaderResults(clientCfg) :
          calls' = [calls EXCEPT ![c] =
              [@ EXCEPT !.pc = "awaitFetch", !.resolved = Append(@, h),
                        !.fetchCalls = Append(@, [url |-> calls[c].url,
                            init |-> FetchOptions(calls[c].method, h, calls[c].body)])]]
    /\ UNCHANGED <<clientCfg, pathVars, serverVars>>

(* getHeaders threw or rejected.                                           *)
HeadersReject(c) ==
    /\ calls[c].pc = "awaitHeaders"
    /\ clientCfg.getHeaders = "custom"
    /\ calls' = [calls EXCEPT ![c] =
          [@ EXCEPT !.pc = "done", !.outcome = Threw(HeadersError)]]
    /\ UNCHANGED <<clientCfg, pathVars, serverVars>>

(* The transport answered: handleResponse.                                 *)
FetchResolve(c) ==
    /\ calls[c].pc = "awaitFetch"
    /\ \E r \in Responses :
          LET h == HandleResponse(clientCfg, calls[c].method, calls[c].path, r,
                                  calls[c].options)
          IN  calls' = [calls EXCEPT ![c] =
                  [@ EXCEPT !.pc = "done", !.response = r, !.outcome = h.outcome,
                            !.jsonReads = @ + h.jsonReads,
                            !.textReads = @ + h.textReads,
                            !.log = @ \o h.log,
                            !.applied = @ \o h.applied]]
    /\ UNCHANGED <<clientCfg, pathVars, serverVars>>

(* The transport rejected.                                                 *)
FetchRejectRetries(c) ==
    /\ calls[c].pc = "awaitFetch"
    /\ calls' = [calls EXCEPT ![c] =
          [@ EXCEPT !.fetchCalls = Append(@, calls[c].fetchCalls[1])]]
    /\ UNCHANGED <<clientCfg, pathVars, serverVars>>

FetchReject(c) ==
    /\ calls[c].pc = "awaitFetch"
    /\ calls' = [calls EXCEPT ![c] =
          [@ EXCEPT !.pc = "done", !.outcome = Threw(NetworkError)]]
    /\ UNCHANGED <<clientCfg, pathVars, serverVars>>

----------------------------------------------------------------------------
(* registerExpressRoutes                                                   *)

(* Object.keys(routes[method]): the route keys in insertion order.         *)
RouteKeys(method) ==
    CASE method = "GET" -> <<UserIdPath, TypePath>>
      [] method = "POST" -> <<UserPath>>
      [] method = "PUT" -> <<UserIdPath>>
      [] method = "DELETE" -> <<PostPath>>
      [] method = "QUERY" -> <<UserPath, CatchAllPath>>
      [] OTHER -> <<>>

(* Object.keys(methodRoutes) of the table the server was handed.           *)
RegisteredKeys(cfg, method) ==
    SelectSeq(RouteKeys(method), LAMBDA route : cfg.catchAll \/ route # CatchAllPath)

(* Object.entries(expressMethodMap), in insertion order.                   *)
ExpressMethodMapQueryFirst ==
    << [method |-> "QUERY", verb |-> "all"], [method |-> "GET", verb |-> "get"],
       [method |-> "POST", verb |-> "post"], [method |-> "PUT", verb |-> "put"],
       [method |-> "PATCH", verb |-> "patch"], [method |-> "DELETE", verb |-> "delete"] >>

ExpressMethodMap ==
    << [method |-> "GET", verb |-> "get"], [method |-> "POST", verb |-> "post"],
       [method |-> "PUT", verb |-> "put"], [method |-> "PATCH", verb |-> "patch"],
       [method |-> "DELETE", verb |-> "delete"], [method |-> "QUERY", verb |-> "all"] >>

SchemaPath == <<"/", "__schema">>

(* `validation = true` in the destructuring of the handlers object.        *)
ServerValidationDefaultOff(cfg) ==
    IF cfg.validation.type = "undefined" THEN FALSE ELSE cfg.validation.bool

ServerValidation(cfg) ==
    IF cfg.validation.type = "undefined" THEN TRUE ELSE cfg.validation.bool

(* The layers one method adds: r[routerMethod](route, createRouteHandler(  *)
(* methodKey, routes, handlers, route, validation)) for each route key.    *)
MethodLayers(cfg, entry) ==
    IF entry.method \notin DOMAIN Routes THEN <<>>
    ELSE [ k \in 1..Len(RegisteredKeys(cfg, entry.method)) |->
             [ kind |-> "route", verb |-> entry.verb,
               route |-> RegisteredKeys(cfg, entry.method)[k],
               method |-> entry.method, validation |-> ServerValidation(cfg) ] ]

RECURSIVE LayersFrom(_, _)
LayersFrom(cfg, k) ==
    IF k > Len(ExpressMethodMap) THEN <<>>
    ELSE MethodLayers(cfg, ExpressMethodMap[k]) \o LayersFrom(cfg, k + 1)

(* The router registerExpressRoutes returns: its layers in registration    *)
(* order, the schema endpoint last.                                        *)
RegisterExpressRoutes(cfg) ==
    LayersFrom(cfg, 1) \o
    IF Truthy(cfg.schemaFilePath)
    THEN << [kind |-> "schema", verb |-> "get", route |-> SchemaPath, method |-> "GET",
             validation |-> FALSE] >>
    ELSE <<>>

----------------------------------------------------------------------------
(* The Express router: which layer a request reaches.                      *)

VerbOf(method) ==
    CASE method = "GET" -> "get" [] method = "POST" -> "post" [] method = "PUT" -> "put"
      [] method = "PATCH" -> "patch" [] method = "DELETE" -> "delete" [] OTHER -> "query"

NoMatch == [ok |-> FALSE, params |-> EmptyObject]

(* A route pattern against a URL path: literals must agree, a `:name`      *)
(* segment captures one non-empty URL segment as a string.                 *)
RECURSIVE MatchFrom(_, _, _, _, _)
MatchFrom(route, i, url, j, captured) ==
    IF i > Len(route) /\ j > Len(url) THEN [ok |-> TRUE, params |-> captured]
    ELSE IF i > Len(route) \/ j > Len(url) THEN NoMatch
    ELSE IF MatchesAt(route, i)
    THEN IF url[j] = "/" THEN NoMatch
         ELSE LET e == RunEnd(route, i + 1)
                  f == RunEnd(url, j)
              IN  MatchFrom(route, e + 1, url, f + 1,
                      (SubSeq(route, i + 1, e) :> StrVal(SubSeq(url, j, f))) @@ captured)
    ELSE IF route[i] = url[j] THEN MatchFrom(route, i + 1, url, j + 1, captured)
    ELSE NoMatch

LayerMatches(layer, method, url) ==
    /\ layer.verb = "all" \/ layer.verb = VerbOf(method)
    /\ MatchFrom(layer.route, 1, url, 1, EmptyObject).ok

(* The first layer, in registration order, that matches; 0 when none does. *)
Dispatch(layers, method, url) ==
    IF \E k \in 1..Len(layers) : LayerMatches(layers[k], method, url)
    THEN CHOOSE k \in 1..Len(layers) :
            /\ LayerMatches(layers[k], method, url)
            /\ \A m \in 1..(k - 1) : ~LayerMatches(layers[m], method, url)
    ELSE 0

----------------------------------------------------------------------------
(* createRouteHandler: the callback of one route, one action per stretch   *)
(* between two awaits.                                                     *)

Reqs == {"r1"}

IdleReq ==
    [ pc |-> "idle", method |-> "", url |-> <<>>, body |-> Undefined, query |-> Undefined,
      layer |-> 0, ctxThrows |-> FALSE, ctxCalls |-> 0, applied |-> <<>>,
      handlerCalls |-> <<>>, handlerResult |-> Pending, sent |-> <<>>,
      nextCalls |-> <<>>, unhandled |-> <<>> ]

ReqUrls ==
    { <<"/", "user">>, <<"/", "user", "/", "7">>,
      <<"/", "user", "/", "7", "/", "post", "/", "9">>, <<"/", "type", "/", "x">>,
      SchemaPath, <<"/", "nope">> }

ReqBodies == { Undefined, ObjVal("user"), ObjVal("userExtra"), ObjVal("userBadEmail") }

ReqQueries == { ObjVal("queryOk"), ObjVal("queryBad") }

ServerConfigs ==
    { [validation |-> v, ctx |-> x, schemaFilePath |-> f, catchAll |-> a] :
        v \in {Undefined, BoolVal(TRUE), BoolVal(FALSE)},
        x \in {"none", "factory"},
        f \in {Undefined, StrVal(<<"schema.txt">>)},
        a \in BOOLEAN }

CtxError == [name |-> "Error", message |-> <<"ctx failed">>]

HandlerErrors ==
    { [name |-> "Error", message |-> <<"handler failed">>],
      [name |-> "RangeError", message |-> <<"handler failed">>] }

FileError == [name |-> "Error", message |-> <<"ENOENT">>]

(* What a user handler may do: return or resolve a value, throw or reject. *)
HandlerResults ==
    { Returned(v) : v \in {ObjVal("user"), ObjVal("userExtra"), ObjVal("userBadEmail"),
                           Undefined} }
    \cup { Threw(e) : e \in HandlerErrors }

Json(status, v) == [status |-> status, type |-> "json", body |-> v]

Text(status, v) == [status |-> status, type |-> "text", body |-> v]

MethodNotAllowed == 405

StatusOk == 200

(* method === "QUERY" && req.method !== "QUERY"                            *)
MethodMismatchNever(routeMethod, reqMethod) == FALSE

MethodMismatch(routeMethod, reqMethod) ==
    routeMethod = "QUERY" /\ reqMethod # "QUERY"

(* routeConfig?.body, routeConfig?.queryParams: whether the field is       *)
(* parsed and put into the data object.                                    *)
ParsesFieldWhenValidating(layer, field) ==
    layer.validation /\ Declares(layer.method, layer.route, field)

ParsesFieldBodyOnly(layer, field) ==
    field = "body" /\ Declares(layer.method, layer.route, field)

ParsesField(layer, field) == Declares(layer.method, layer.route, field)

(* The data object: params always, body and queryParams when the route     *)
(* declares a schema for them.                                             *)
HandlerDataBodyAlways(captured, hasBody, body, hasQuery, query) ==
    ("params" :> ParamsObj(captured))
    @@ ("body" :> body)
    @@ (IF hasQuery THEN ("queryParams" :> query) ELSE [k \in {} |-> Undefined])

HandlerData(captured, hasBody, body, hasQuery, query) ==
    ("params" :> ParamsObj(captured))
    @@ (IF hasBody THEN ("body" :> body) ELSE [k \in {} |-> Undefined])
    @@ (IF hasQuery THEN ("queryParams" :> query) ELSE [k \in {} |-> Undefined])

(* catch (err) { next(err) }                                               *)
CatchSwallows(rq, err) == [rq EXCEPT !.pc = "done"]

Catch(rq, err) == [rq EXCEPT !.pc = "done", !.nextCalls = Append(@, err)]

(* The synchronous stretch of the callback, from the 405 guard to the call *)
(* of the user handler.                                                    *)
RouteCallback(cfg, layer, rq) ==
    LET m == layer.method
        route == layer.route
        captured == MatchFrom(route, 1, rq.url, 1, EmptyObject).params
        hasBody == ParsesField(layer, "body")
        hasQuery == ParsesField(layer, "queryParams")
        bodyParse == SchemaParse(Routes[m][route].body, rq.body)
        queryParse == SchemaParse(Routes[m][route].queryParams, rq.query)
        a1 == IF hasBody THEN <<Application(Routes[m][route].body, rq.body)>> ELSE <<>>
        a2 == IF hasQuery THEN Append(a1, Application(Routes[m][route].queryParams, rq.query))
              ELSE a1
        counted == [rq EXCEPT !.ctxCalls = IF cfg.ctx = "factory" THEN @ + 1 ELSE @]
    IN  IF MethodMismatch(m, rq.method)
        THEN [rq EXCEPT !.pc = "done",
                        !.sent = Append(@, Text(MethodNotAllowed, StrVal(<<"Method Not Allowed">>)))]
        ELSE IF cfg.ctx = "factory" /\ rq.ctxThrows
        THEN Catch(counted, CtxError)
        ELSE IF hasBody /\ bodyParse.kind = "threw"
        THEN Catch([counted EXCEPT !.applied = a1], bodyParse.error)
        ELSE IF hasQuery /\ queryParse.kind = "threw"
        THEN Catch([counted EXCEPT !.applied = a2], queryParse.error)
        ELSE [counted EXCEPT !.pc = "awaitHandler", !.applied = a2,
                  !.handlerCalls = Append(@,
                      [ data |-> HandlerData(captured,
                                     hasBody, IF hasBody THEN bodyParse.value ELSE Undefined,
                                     hasQuery, IF hasQuery THEN queryParse.value ELSE Undefined),
                        ctx |-> IF cfg.ctx = "factory" THEN "context" ELSE "{}" ])]

(* After `await handlers[method][route]?.(data, ctx)`: the response, or    *)
(* the catch clause.  A handler that throws before returning a promise     *)
(* reaches the same catch clause.                                          *)
RouteCallbackResume(layer, rq, result) ==
    LET schema == Routes[layer.method][layer.route].response
        final == IF result.kind = "threw" THEN result
                 ELSE IF layer.validation THEN SchemaParse(schema, result.value)
                 ELSE result
        settled == [rq EXCEPT !.handlerResult = result,
                        !.applied = IF result.kind = "returned" /\ layer.validation
                                    THEN Append(@, Application(schema, result.value))
                                    ELSE @]
    IN  IF final.kind = "threw"
        THEN Catch(settled, final.error)
        ELSE [settled EXCEPT !.pc = "done", !.sent = Append(@, Json(StatusOk, final.value))]

(* An inbound request reaches the first matching layer and its callback    *)
(* runs up to its first await.                                             *)
Accept(r, method, url, body, query, ctxThrows) ==
    /\ reqs[r].pc = "idle"
    /\ LET k == Dispatch(router, method, url)
           rq == [reqs[r] EXCEPT !.method = method, !.url = url, !.body = body,
                                 !.query = query, !.layer = k, !.ctxThrows = ctxThrows]
       IN  reqs' = [reqs EXCEPT ![r] =
               IF k = 0 THEN [rq EXCEPT !.pc = "unmatched"]
               ELSE IF router[k].kind = "schema" THEN [rq EXCEPT !.pc = "awaitFile"]
               ELSE RouteCallback(serverCfg, router[k], rq)]
    /\ UNCHANGED <<serverCfg, router, clientVars, pathVars>>

Receive(r) ==
    /\ reqs[r].pc = "idle"
    /\ \E method \in Methods, url \in ReqUrls, body \in ReqBodies, query \in ReqQueries,
          ctxThrows \in IF serverCfg.ctx = "factory" THEN BOOLEAN ELSE {FALSE} :
          Accept(r, method, url, body, query, ctxThrows)

(* The user handler returned, resolved, threw or rejected.                 *)
HandlerSettle(r) ==
    /\ reqs[r].pc = "awaitHandler"
    /\ \E result \in HandlerResults :
          reqs' = [reqs EXCEPT ![r] = RouteCallbackResume(router[reqs[r].layer], @, result)]
    /\ UNCHANGED <<serverCfg, router, clientVars, pathVars>>

(* The schema endpoint: readFile resolved, the text is sent.               *)
SchemaFileRead(r) ==
    /\ reqs[r].pc = "awaitFile"
    /\ reqs' = [reqs EXCEPT ![r] =
          [@ EXCEPT !.pc = "done", !.sent = Append(@, Text(StatusOk, StrVal(<<"schema text">>)))]]
    /\ UNCHANGED <<serverCfg, router, clientVars, pathVars>>

(* The schema endpoint: readFile rejected; the callback has no catch.      *)
SchemaFileFail(r) ==
    /\ reqs[r].pc = "awaitFile"
    /\ reqs' = [reqs EXCEPT ![r] =
          [@ EXCEPT !.pc = "done", !.unhandled = Append(@, FileError)]]
    /\ UNCHANGED <<serverCfg, router, clientVars, pathVars>>

----------------------------------------------------------------------------
(* Specifications.                                                         *)

PathIdle ==
    /\ template = <<>>
    /\ params = EmptyObject
    /\ pathResult = Pending

ClientIdle ==
    /\ clientCfg = [validate |-> Undefined, debug |-> Undefined, getHeaders |-> "default"]
    /\ calls = [c \in Calls |-> IdleCall]

ServerIdle ==
    /\ serverCfg = [validation |-> Undefined, ctx |-> "none", schemaFilePath |-> Undefined,
                    catchAll |-> FALSE]
    /\ router = <<>>
    /\ reqs = [r \in Reqs |-> IdleReq]

PathInit ==
    /\ template \in SeqsUpTo(PathLexemes, MaxLen)
    /\ params \in PathParamObjects
    /\ pathResult = Pending
    /\ ClientIdle
    /\ ServerIdle

Substitute ==
    /\ pathResult.kind = "pending"
    /\ pathResult' = replacePathParams(template, params)
    /\ UNCHANGED <<template, params, clientVars, serverVars>>

PathNext == Substitute

PathSpec == PathInit /\ [][PathNext]_vars

ClientInit ==
    /\ clientCfg \in ClientConfigs
    /\ calls = [c \in Calls |-> IdleCall]
    /\ PathIdle
    /\ ServerIdle

ClientNext ==
    \E c \in Calls :
        \/ ClientCall(c)
        \/ HeadersResolve(c)
        \/ HeadersReject(c)
        \/ FetchResolve(c)
        \/ FetchReject(c)

ClientSpec == ClientInit /\ [][ClientNext]_vars

ServerInit ==
    /\ serverCfg \in ServerConfigs
    /\ router = RegisterExpressRoutes(serverCfg)
    /\ reqs = [r \in Reqs |-> IdleReq]
    /\ PathIdle
    /\ ClientIdle

ServerNext ==
    \E r \in Reqs :
        \/ Receive(r)
        \/ HandlerSettle(r)
        \/ SchemaFileRead(r)
        \/ SchemaFileFail(r)

ServerSpec == ServerInit /\ [][ServerNext]_vars

----------------------------------------------------------------------------
(* Concurrency: two client calls in flight in one client, or two requests  *)
(* in flight in one router, interleaved at every await.                    *)

ConcurrentCalls == {"c1", "c2"}

ConcurrentReqs == {"r1", "r2"}

FullParams ==
    ParamsObj((<<"id">> :> StrVal(<<"42">>)) @@ (<<"postId">> :> NumVal(7)))

CallOptions(p, q) ==
    [type |-> "object", params |-> p, queryParams |-> q, debug |-> Undefined]

(* The calls the two callers make.                                         *)
ConcurrentCallInputs ==
    { [method |-> "POST", path |-> UserPath, body |-> ObjVal("user"), options |-> Undefined],
      [method |-> "POST", path |-> UserPath, body |-> ObjVal("userBadEmail"),
       options |-> Undefined],
      [method |-> "GET", path |-> UserIdPath, body |-> Undefined,
       options |-> CallOptions(FullParams, ObjVal("queryOk"))],
      [method |-> "GET", path |-> UserIdPath, body |-> Undefined, options |-> Undefined],
      [method |-> "DELETE", path |-> PostPath, body |-> ObjVal("user"),
       options |-> CallOptions(FullParams, Undefined)],
      [method |-> "PATCH", path |-> UserPath, body |-> ObjVal("user"), options |-> Undefined] }

(* The requests the two peers send.                                        *)
ConcurrentReqInputs ==
    { [method |-> "POST", url |-> <<"/", "user">>, body |-> ObjVal("userExtra"),
       query |-> ObjVal("queryOk"), ctxThrows |-> FALSE],
      [method |-> "POST", url |-> <<"/", "user">>, body |-> ObjVal("userBadEmail"),
       query |-> ObjVal("queryOk"), ctxThrows |-> FALSE],
      [method |-> "GET", url |-> <<"/", "user", "/", "7">>, body |-> Undefined,
       query |-> ObjVal("queryBad"), ctxThrows |-> FALSE],
      [method |-> "GET", url |-> <<"/", "user">>, body |-> Undefined,
       query |-> ObjVal("queryOk"), ctxThrows |-> FALSE],
      [method |-> "QUERY", url |-> <<"/", "user">>, body |-> ObjVal("user"),
       query |-> ObjVal("queryOk"), ctxThrows |-> FALSE],
      [method |-> "DELETE", url |-> <<"/", "user", "/", "7", "/", "post", "/", "9">>,
       body |-> ObjVal("user"), query |-> ObjVal("queryOk"), ctxThrows |-> FALSE],
      [method |-> "PUT", url |-> <<"/", "user", "/", "7">>, body |-> ObjVal("user"),
       query |-> ObjVal("queryOk"), ctxThrows |-> TRUE],
      [method |-> "GET", url |-> SchemaPath, body |-> Undefined,
       query |-> ObjVal("queryOk"), ctxThrows |-> FALSE] }

ConcurrentCall(c) ==
    /\ calls[c].pc = "idle"
    /\ \E in \in ConcurrentCallInputs : Call(c, in.method, in.path, in.body, in.options)

ConcurrentReceive(r) ==
    /\ reqs[r].pc = "idle"
    /\ \E in \in ConcurrentReqInputs :
          /\ in.ctxThrows => serverCfg.ctx = "factory"
          /\ Accept(r, in.method, in.url, in.body, in.query, in.ctxThrows)

(* One process is a client with two calls, or a server with two requests.  *)
ConcurrentInit ==
    /\ PathIdle
    /\ \/ /\ clientCfg \in ClientConfigs
          /\ calls = [c \in ConcurrentCalls |-> IdleCall]
          /\ serverCfg = [validation |-> Undefined, ctx |-> "none",
                          schemaFilePath |-> Undefined, catchAll |-> FALSE]
          /\ router = <<>>
          /\ reqs = [r \in {} |-> IdleReq]
       \/ /\ serverCfg \in ServerConfigs
          /\ router = RegisterExpressRoutes(serverCfg)
          /\ reqs = [r \in ConcurrentReqs |-> IdleReq]
          /\ clientCfg = [validate |-> Undefined, debug |-> Undefined,
                          getHeaders |-> "default"]
          /\ calls = [c \in {} |-> IdleCall]

ConcurrentNext ==
    \/ \E c \in DOMAIN calls : ConcurrentCall(c)
    \/ \E c \in DOMAIN calls : HeadersResolve(c)
    \/ \E c \in DOMAIN calls : HeadersReject(c)
    \/ \E c \in DOMAIN calls : FetchResolve(c)
    \/ \E c \in DOMAIN calls : FetchReject(c)
    \/ \E r \in DOMAIN reqs : ConcurrentReceive(r)
    \/ \E r \in DOMAIN reqs : HandlerSettle(r)
    \/ \E r \in DOMAIN reqs : SchemaFileRead(r)
    \/ \E r \in DOMAIN reqs : SchemaFileFail(r)

ConcurrentSpec == ConcurrentInit /\ [][ConcurrentNext]_vars

----------------------------------------------------------------------------
(* Claims about the client.                                                *)

(* The own keys of the params object a call passed: options.params, or     *)
(* nothing when options or params are absent.                              *)
SuppliedParams(k) ==
    IF Nullish(OptionalChain(k.options, "params")) THEN {}
    ELSE DOMAIN k.options.params.props

ValidationOn == clientCfg.validate = BoolVal(TRUE)

ValidationOff == clientCfg.validate = BoolVal(FALSE)

(* C1: with the validation toggle on, a body-taking call to a route that   *)
(* declares a body schema, with a supplied body that violates the schema   *)
(* (falsy bodies included), raises a ValidationError and never invokes the *)
(* transport.                                                              *)
C1_InvalidBodyRaisesBeforeTransport ==
    \A c \in Calls :
        LET k == calls[c]
        IN  ( /\ k.pc # "idle"
              /\ ValidationOn
              /\ k.method # "GET"
              /\ Declares(k.method, k.path, "body")
              /\ k.body.type # "undefined"
              /\ ~SchemaAccepts(Routes[k.method][k.path].body, k.body) )
            => /\ k.fetchCalls = <<>>
               /\ k.pc = "done"
               /\ k.outcome.kind = "threw"
               /\ k.outcome.error.name = "ZodError"

(* C2: a call whose params mapping lacks a value for a parameter of its    *)
(* path template fails with the missing-parameter error, which names one   *)
(* missing parameter and the template; no URL is produced and the          *)
(* transport is never invoked.  Stated for the calls whose outgoing        *)
(* validation raised nothing, so that path substitution is what the call   *)
(* reaches.                                                                *)
C2_MissingParamRaisesBeforeTransport ==
    \A c \in Calls :
        LET k == calls[c]
            missing == ParamNameSet(k.path) \ SuppliedParams(k)
        IN  ( /\ k.pc # "idle"
              /\ missing # {}
              /\ ~(k.pc = "done" /\ k.outcome.kind = "threw"
                   /\ k.outcome.error.name \in {"ZodError", "TypeError"}
                   /\ k.headerCalls = 0) )
            => /\ k.fetchCalls = <<>>
               /\ k.url = <<>>
               /\ k.pc = "done"
               /\ k.outcome.kind = "threw"
               /\ \E n \in missing : k.outcome.error = MissingParameterError(n, k.path)

(* A call to a route whose declared response type is "void".             *)
VoidRoute(k) ==
    /\ Declares(k.method, k.path, "response")
    /\ SchemaType(Routes[k.method][k.path].response) = "void"

Answered(k) == k.pc = "done" /\ k.response.status # 0

SuccessStatus(k) == k.response.status >= 200 /\ k.response.status <= 299

(* C4 as stated: for a void route the client never parses the response     *)
(* body as JSON, whatever the status and the body; on success it drains    *)
(* the body as text and returns nothing.                                   *)
C4_VoidNeverParsesJson ==
    \A c \in Calls :
        LET k == calls[c]
        IN  VoidRoute(k)
            => /\ k.jsonReads = 0
               /\ (Answered(k) /\ SuccessStatus(k))
                  => /\ k.textReads = 1
                     /\ k.outcome = Returned(Undefined)

(* C4 amended: for a void route, a call answered with a success status     *)
(* never parses the response body as JSON, whatever the body: it drains    *)
(* the body as text once and returns nothing.  A call answered with a      *)
(* non-success status parses the body as JSON once, as the error payload,  *)
(* and does not drain it as text.                                          *)
C4_VoidSuccessNeverParsesJson ==
    \A c \in Calls :
        LET k == calls[c]
        IN  VoidRoute(k)
            => /\ (Answered(k) /\ SuccessStatus(k))
                  => /\ k.jsonReads = 0
                     /\ k.textReads = 1
                     /\ k.outcome = Returned(Undefined)
               /\ (Answered(k) /\ ~SuccessStatus(k))
                  => /\ k.jsonReads = 1
                     /\ k.textReads = 0
                     /\ k.outcome.kind = "threw"
               /\ ~Answered(k) => (k.jsonReads = 0 /\ k.textReads = 0)

(* A void route answered 200 with a body that is no JSON text.             *)
C4_Witness ==
    \E c \in Calls :
        /\ VoidRoute(calls[c])
        /\ Answered(calls[c])
        /\ calls[c].response = [status |-> 200, body |-> <<"<html>">>]
        /\ calls[c].textReads = 1
        /\ calls[c].outcome = Returned(Undefined)

Suffix(s, n) == SubSeq(s, Len(s) - n + 1, Len(s))

(* C10: with validation off no schema is ever applied: a body or           *)
(* queryParams value that violates its schema is serialized and sent to    *)
(* the transport unchanged, without raising, and on success for a non-void *)
(* route the call returns exactly the parsed JSON of the response.         *)
C10_ValidationOffAppliesNoSchema ==
    \A c \in Calls :
        LET k == calls[c]
            qp == OptionalChain(k.options, "queryParams")
        IN  ValidationOff
            => /\ k.applied = <<>>
               /\ (k.pc = "done" /\ k.outcome.kind = "threw")
                  => k.outcome.error.name # "ZodError"
               /\ (k.pc = "done" /\ k.headerCalls = 0)
                  => ParamNameSet(k.path) \ SuppliedParams(k) # {}
               /\ \A i \in 1..Len(k.fetchCalls) :
                     /\ k.body.type # "undefined"
                        => /\ k.fetchCalls[i].init.hasBody
                           /\ k.fetchCalls[i].init.body = JSONStringify(k.body)
                     /\ qp.type = "object"
                        => Suffix(k.fetchCalls[i].url, 2)
                           = <<"?">> \o URLSearchParamsString(qp)
               /\ ( /\ Answered(k) /\ SuccessStatus(k)
                    /\ Declares(k.method, k.path, "response") /\ ~VoidRoute(k) )
                  => \A v \in JsonValues :
                        k.response.body = JSONStringify(v) => k.outcome = Returned(v)

(* Validation off, a body and a query that violate their schemas sent, and *)
(* a response that violates the response schema returned as parsed.        *)
C10_Witness ==
    \E c \in Calls :
        LET k == calls[c]
        IN  /\ ValidationOff
            /\ Answered(k)
            /\ k.method = "QUERY"
            /\ k.body = ObjVal("userBadEmail")
            /\ OptionalChain(k.options, "queryParams") = ObjVal("queryBad")
            /\ k.fetchCalls[1].init.body = JSONStringify(ObjVal("userBadEmail"))
            /\ k.response = [status |-> 200, body |-> JSONStringify(ObjVal("httpError"))]
            /\ k.outcome = Returned(ObjVal("httpError"))

(* C11: with validation on, a call to a non-void route returns a value     *)
(* only if the received JSON payload passed the declared response schema,  *)
(* and the value is the schema's parsed output (unknown keys stripped); a  *)
(* success-status payload that violates the schema makes the call raise a  *)
(* ValidationError, after the transport call, instead of returning.        *)
C11_ReturnsOnlyValidatedResponse ==
    \A c \in Calls :
        LET k == calls[c]
            schema == Routes[k.method][k.path].response
        IN  ( /\ ValidationOn
              /\ Answered(k) /\ SuccessStatus(k)
              /\ Declares(k.method, k.path, "response") /\ ~VoidRoute(k) )
            => /\ Len(k.fetchCalls) = 1
               /\ k.outcome.kind = "returned"
                  => \E v \in JsonValues :
                        /\ k.response.body = JSONStringify(v)
                        /\ SchemaAccepts(schema, v)
                        /\ k.outcome.value =
                              IF v = ObjVal("userExtra") THEN ObjVal("user") ELSE v
               /\ \A v \in JsonValues :
                     (k.response.body = JSONStringify(v) /\ ~SchemaAccepts(schema, v))
                     => /\ k.outcome.kind = "threw"
                        /\ k.outcome.error.name = "ZodError"
                        /\ k.outcome.error.input = v

(* A payload with an unknown key passed the schema and came back stripped. *)
C11_Witness ==
    \E c \in Calls :
        /\ ValidationOn
        /\ Answered(calls[c])
        /\ calls[c].response = [status |-> 200, body |-> JSONStringify(ObjVal("userExtra"))]
        /\ calls[c].outcome = Returned(ObjVal("user"))

ValidationEnabled == clientCfg.validate # BoolVal(FALSE)

(* Whenever the transport has been invoked: outgoing validation has        *)
(* accepted the body and the query it applies to, the URL handed over is   *)
(* the substituted one, the header function was called and has resolved;   *)
(* and the response is handled only once the transport has answered.       *)
TransportInOrder(k) ==
    LET qp == OptionalChain(k.options, "queryParams")
    IN  /\ k.fetchCalls # <<>>
           => /\ k.pc \in {"awaitFetch", "done"}
              /\ (ValidationEnabled /\ Truthy(k.body) /\ Declares(k.method, k.path, "body"))
                 => /\ Len(k.applied) >= 1
                    /\ k.applied[1] = Application(Routes[k.method][k.path].body, k.body)
                    /\ SchemaAccepts(Routes[k.method][k.path].body, k.body)
              /\ (ValidationEnabled /\ Truthy(qp) /\ Declares(k.method, k.path, "queryParams"))
                 => /\ \E i \in 1..Len(k.applied) :
                          k.applied[i] = Application(Routes[k.method][k.path].queryParams, qp)
                    /\ SchemaAccepts(Routes[k.method][k.path].queryParams, qp)
              /\ k.url # <<>>
              /\ k.fetchCalls[1].url = k.url
              /\ MatchesFrom(k.url, 1) = <<>>
              /\ k.headerCalls = 1
              /\ Len(k.resolved) = 1
        /\ (k.jsonReads + k.textReads > 0 \/ k.response.status # 0)
           => /\ k.pc = "done"
              /\ Len(k.fetchCalls) = 1
              /\ k.response \in Responses

(* C12 as stated: the transport is invoked only after outgoing validation, *)
(* path substitution and the header function's resolution; it receives     *)
(* exactly the headers that function resolved to; response handling starts *)
(* only after the transport's result is available.                         *)
C12_TransportGetsExactlyResolvedHeaders ==
    \A c \in Calls :
        /\ TransportInOrder(calls[c])
        /\ calls[c].fetchCalls # <<>>
           => calls[c].fetchCalls[1].init.headers = calls[c].resolved[1]

(* C12 amended: the same order of steps; the transport receives the        *)
(* headers that function resolved to merged over the fixed header          *)
(* Content-Type: application/json, a resolved Content-Type replacing it.   *)
C12_TransportGetsResolvedHeadersOverDefault ==
    \A c \in Calls :
        /\ TransportInOrder(calls[c])
        /\ calls[c].fetchCalls # <<>>
           => LET sent == calls[c].fetchCalls[1].init.headers
                  got == calls[c].resolved[1]
              IN  /\ DOMAIN sent = DOMAIN got \cup {"Content-Type"}
                  /\ \A h \in DOMAIN got : sent[h] = got[h]
                  /\ "Content-Type" \notin DOMAIN got
                     => sent["Content-Type"] = "application/json"

(* The header function resolved to its own Content-Type, the transport was *)
(* invoked with it and has answered.                                       *)
C12_Witness ==
    \E c \in Calls :
        /\ Answered(calls[c])
        /\ calls[c].resolved = <<("Content-Type" :> "text/plain")>>
        /\ calls[c].fetchCalls[1].init.headers["Content-Type"] = "text/plain"
        /\ calls[c].applied # <<>>

(* C16: in a client constructed with the `debug` toggle enabled, a call    *)
(* that receives a non-success status logs the raw error payload before    *)
(* raising, even when the call passes no per-call `debug` option; a        *)
(* per-call `debug` option decides instead when it is passed.              *)
C16_ConfiguredDebugLogsErrorPayload ==
    \A c \in Calls :
        LET k == calls[c]
            perCall == OptionalChain(k.options, "debug")
        IN  \A v \in JsonValues :
                ( /\ Answered(k) /\ ~SuccessStatus(k)
                  /\ k.response.body = JSONStringify(v) )
                => /\ (perCall.type = "undefined" /\ clientCfg.debug = BoolVal(TRUE))
                      => k.log = <<v>>
                   /\ (perCall.type # "undefined")
                      => k.log = IF Truthy(perCall) THEN <<v>> ELSE <<>>

(* C17: a call whose path key is not in the route table for the called     *)
(* method (a method absent from the partial table included) never returns  *)
(* a value: it ends with a raised error, for both values of the validation *)
(* toggle and for every response of the transport.                         *)
C17_UnknownRouteNeverReturns ==
    \A c \in Calls :
        LET k == calls[c]
        IN  (k.pc # "idle" /\ ~HasRoute(k.method, k.path))
            => /\ k.outcome.kind # "returned"
               /\ k.pc = "done" => k.outcome.kind = "threw"
               /\ (Answered(k) /\ SuccessStatus(k))
                  => k.outcome.error.name = "TypeError"

(* Validation off, a path key the POST table lacks, and a 200 with a JSON  *)
(* body: the call raised.                                                  *)
C17_Witness ==
    \E c \in Calls :
        /\ ValidationOff
        /\ calls[c].method = "POST"
        /\ calls[c].path = UserIdPath
        /\ calls[c].response = [status |-> 200, body |-> JSONStringify(ObjVal("user"))]
        /\ calls[c].pc = "done"
        /\ calls[c].outcome.kind = "threw"

ValidationAbsent == clientCfg.validate = Undefined

(* A body the outgoing validation applies to (a truthy one: falsy bodies   *)
(* are the subject of C1) and the body schema rejects.                     *)
RejectedBody(k) ==
    /\ Truthy(k.body)
    /\ Declares(k.method, k.path, "body")
    /\ ~SchemaAccepts(Routes[k.method][k.path].body, k.body)

(* C19: a client created without a `validate` option validates: an         *)
(* outgoing body or queryParams value its schema rejects raises a          *)
(* ValidationError before the header function and the transport are        *)
(* reached, and a received payload the response schema rejects raises one  *)
(* instead of being returned.                                              *)
C19_ClientValidatesByDefault ==
    \A c \in Calls :
        LET k == calls[c]
            qp == OptionalChain(k.options, "queryParams")
            stopped(schema, v) ==
                /\ k.pc = "done"
                /\ k.outcome = Threw([name |-> "ZodError", schema |-> schema, input |-> v])
                /\ k.headerCalls = 0
                /\ k.fetchCalls = <<>>
        IN  (ValidationAbsent /\ k.pc # "idle" /\ k.method \in DOMAIN Routes)
            => /\ RejectedBody(k) => stopped(Routes[k.method][k.path].body, k.body)
               /\ ( /\ ~RejectedBody(k)
                    /\ Truthy(qp)
                    /\ Declares(k.method, k.path, "queryParams")
                    /\ ~SchemaAccepts(Routes[k.method][k.path].queryParams, qp) )
                  => stopped(Routes[k.method][k.path].queryParams, qp)
               /\ ( /\ Answered(k) /\ SuccessStatus(k)
                    /\ Declares(k.method, k.path, "response") /\ ~VoidRoute(k) )
                  => \A v \in JsonValues :
                        ( /\ k.response.body = JSONStringify(v)
                          /\ ~SchemaAccepts(Routes[k.method][k.path].response, v) )
                        => /\ k.outcome.kind = "threw"
                           /\ k.outcome.error.name = "ZodError"
                           /\ k.outcome.error.input = v

(* No `validate` option: a bad body stopped one call before the transport. *)
C19_Witness ==
    \E c \in Calls :
        /\ ValidationAbsent
        /\ calls[c].body = ObjVal("userBadEmail")
        /\ calls[c].pc = "done"
        /\ calls[c].outcome.kind = "threw"
        /\ calls[c].outcome.error.name = "ZodError"
        /\ calls[c].fetchCalls = <<>>

(* C21: client failures are raised in the order body validation, query    *)
(* validation, path substitution, header resolution: with validation on, a *)
(* call with a schema-violating body and a missing path parameter raises   *)
(* the ValidationError, not the missing-parameter error, and a call that    *)
(* fails in validation or in path substitution never invokes the header    *)
(* function.                                                               *)
C21_ValidationErrorBeforeMissingParam ==
    \A c \in Calls :
        LET k == calls[c]
            qp == OptionalChain(k.options, "queryParams")
            missing == ParamNameSet(k.path) \ SuppliedParams(k)
            badBody == /\ k.body.type # "undefined"
                       /\ Declares(k.method, k.path, "body")
                       /\ ~SchemaAccepts(Routes[k.method][k.path].body, k.body)
            badQuery == /\ qp.type # "undefined"
                        /\ Declares(k.method, k.path, "queryParams")
                        /\ ~SchemaAccepts(Routes[k.method][k.path].queryParams, qp)
        IN  (ValidationOn /\ k.pc # "idle")
            => /\ (badBody /\ missing # {})
                  => /\ k.pc = "done"
                     /\ k.outcome = Threw([name |-> "ZodError",
                                            schema |-> Routes[k.method][k.path].body,
                                            input |-> k.body])
               /\ (~badBody /\ badQuery /\ missing # {})
                  => /\ k.pc = "done"
                     /\ k.outcome = Threw([name |-> "ZodError",
                                            schema |-> Routes[k.method][k.path].queryParams,
                                            input |-> qp])
               /\ ( /\ k.pc = "done" /\ k.outcome.kind = "threw"
                    /\ \/ k.outcome.error.name = "ZodError" /\ k.fetchCalls = <<>>
                       \/ \E n \in missing :
                             k.outcome.error = MissingParameterError(n, k.path) )
                  => k.headerCalls = 0

(* C25: every transport invocation carries the called method as its HTTP   *)
(* method and a Content-Type header; a GET call never passes a body, and a  *)
(* body-taking call passes the JSON text of its body argument if and only  *)
(* if that argument is not undefined (null, 0, "" and false are sent).     *)
C25_TransportGetsMethodContentTypeBody ==
    \A c \in Calls :
        LET k == calls[c]
        IN  \A i \in 1..Len(k.fetchCalls) :
                LET init == k.fetchCalls[i].init
                IN  /\ init.method = k.method
                    /\ "Content-Type" \in DOMAIN init.headers
                    /\ k.method = "GET" => ~init.hasBody
                    /\ k.method # "GET" => (init.hasBody <=> k.body.type # "undefined")
                    /\ init.hasBody => init.body = JSONStringify(k.body)
                    /\ k.body = JsNull => init.body = <<"null">>
                    /\ k.body = NumVal(0) => init.body = <<"0">>
                    /\ k.body = BoolVal(FALSE) => init.body = <<"false">>
                    /\ k.body = StrVal(<<>>) => init.body = <<"\"", "\"">>
                    /\ k.body = ObjVal("user") => init.body = ObjectJson("user")

(* A body-taking call whose body is null reached the transport with the    *)
(* text "null", under a header function that overrides Content-Type.       *)
C25_Witness ==
    \E c \in Calls :
        /\ calls[c].method = "POST" /\ calls[c].body = JsNull
        /\ Len(calls[c].fetchCalls) = 1
        /\ calls[c].fetchCalls[1].init.hasBody
        /\ calls[c].fetchCalls[1].init.headers["Content-Type"] = "text/plain"

----------------------------------------------------------------------------
(* Claims about replacePathParams (PathSpec).                              *)

Covered == ParamNameSet(template) \subseteq DOMAIN params

TemplateMatches == MatchesFrom(template, 1)

InsertedText(j) == StringOf(params[TemplateMatches[j].name])

(* How far the text after the first j - 1 tokens has moved.                *)
RECURSIVE ShiftBefore(_)
ShiftBefore(j) ==
    IF j <= 1 THEN 0
    ELSE ShiftBefore(j - 1) + Len(InsertedText(j - 1))
         - (TemplateMatches[j - 1].to - TemplateMatches[j - 1].from + 1)

InsertedFrom(j) == TemplateMatches[j].from + ShiftBefore(j)

InsertedTo(j) == InsertedFrom(j) + Len(InsertedText(j)) - 1

(* The result is the template with each token replaced, in place, by the   *)
(* string form of its value, everything else kept.                         *)
SubstitutedInPlace ==
    LET ms == TemplateMatches
        res == pathResult.value.str
    IN  /\ pathResult.kind = "returned"
        /\ Len(res) = Len(template) + ShiftBefore(Len(ms) + 1)
        /\ \A j \in 1..Len(ms) : SubSeq(res, InsertedFrom(j), InsertedTo(j)) = InsertedText(j)
        /\ \A i \in 1..Len(template) :
              (\A j \in 1..Len(ms) : i < ms[j].from \/ i > ms[j].to)
              => res[i + ShiftBefore(1 + Cardinality({j \in 1..Len(ms) : ms[j].to < i}))]
                 = template[i]

(* C3 as stated: with every parameter covered, the result is the template  *)
(* with each token replaced verbatim by its value's string form, and no    *)
(* `:`-prefixed token remains in it.                                       *)
C3_NoTokenRemains ==
    (pathResult.kind # "pending" /\ Covered)
    => /\ SubstitutedInPlace
       /\ MatchesFrom(pathResult.value.str, 1) = <<>>

(* C3 amended: with every parameter covered, the result is the template    *)
(* with each token replaced verbatim by its value's string form in one     *)
(* pass, and every `:`-prefixed token left in the result lies inside the   *)
(* text of an inserted value: none is left when no value contains a `:`.   *)
C3_TokensOnlyInsideValues ==
    (pathResult.kind # "pending" /\ Covered)
    => /\ SubstitutedInPlace
       /\ \A t \in 1..Len(MatchesFrom(pathResult.value.str, 1)) :
             LET tok == MatchesFrom(pathResult.value.str, 1)[t]
             IN  \E j \in 1..Len(TemplateMatches) :
                     InsertedFrom(j) <= tok.from /\ tok.to <= InsertedTo(j)
       /\ (\A n \in ParamNameSet(template) :
              \A i \in 1..Len(StringOf(params[n])) : StringOf(params[n])[i] # ":")
          => MatchesFrom(pathResult.value.str, 1) = <<>>

(* Two different parameters, both supplied, one of them by a number.       *)
C3_Witness ==
    /\ pathResult.kind = "returned"
    /\ Covered
    /\ Len(TemplateMatches) = 2
    /\ TemplateMatches[1].name # TemplateMatches[2].name
    /\ params[TemplateMatches[1].name].type = "number"
    /\ MatchesFrom(pathResult.value.str, 1) = <<>>

(* Every `:` of the template starts a named token: it is followed by a    *)
(* name and not by `/`, by another `:` or by the end of the template.      *)
NamedTokensOnly ==
    \A i \in 1..Len(template) :
        template[i] = ":"
        => i < Len(template) /\ template[i + 1] \notin {"/", ":"}

(* C18: the parameter names the type ExtractRouteParams derives from a     *)
(* template are the names replacePathParams extracts and requires: a       *)
(* params object with exactly the typed keys is accepted.  Stated for      *)
(* templates in which every `:` starts a named token, a token that is not  *)
(* at the start of a segment included.                                     *)
C18_TypedNamesAreRuntimeNames ==
    (pathResult.kind # "pending" /\ NamedTokensOnly)
    => /\ ExtractRouteParams(template) = ParamNameSet(template)
       /\ DOMAIN params = ExtractRouteParams(template) => pathResult.kind = "returned"

----------------------------------------------------------------------------
(* Claims about the server (ServerSpec).                                   *)

(* The request was dispatched to the callback of a route.                  *)
InRoute(rq) == rq.layer # 0 /\ router[rq.layer].kind = "route"

RouteOf(rq) == Routes[router[rq.layer].method][router[rq.layer].route]

RouteDeclares(rq, field) ==
    Declares(router[rq.layer].method, router[rq.layer].route, field)

ViolatesRequestSchema(rq) ==
    \/ RouteDeclares(rq, "body") /\ ~SchemaAccepts(RouteOf(rq).body, rq.body)
    \/ RouteDeclares(rq, "queryParams") /\ ~SchemaAccepts(RouteOf(rq).queryParams, rq.query)

(* The error the first violated request schema raises: body before query.  *)
RequestSchemaError(rq) ==
    IF RouteDeclares(rq, "body") /\ ~SchemaAccepts(RouteOf(rq).body, rq.body)
    THEN ZodError(RouteOf(rq).body, rq.body)
    ELSE ZodError(RouteOf(rq).queryParams, rq.query)

QueryMismatch(rq) == router[rq.layer].method = "QUERY" /\ rq.method # "QUERY"

CtxFails(rq) == serverCfg.ctx = "factory" /\ rq.ctxThrows

(* C6: a request whose body or query violates the schema the route         *)
(* declares for it never reaches the handler, whatever the value of the    *)
(* validation toggle.                                                      *)
C6_InvalidRequestNeverReachesHandler ==
    \A r \in Reqs :
        (InRoute(reqs[r]) /\ ViolatesRequestSchema(reqs[r]))
        => /\ reqs[r].handlerCalls = <<>>
           /\ reqs[r].pc = "done"
           /\ reqs[r].sent = <<>> \/ QueryMismatch(reqs[r])

(* Validation explicitly off, and still the invalid body stops the request. *)
C6_Witness ==
    \E r \in Reqs :
        /\ serverCfg.validation = BoolVal(FALSE)
        /\ InRoute(reqs[r])
        /\ RouteDeclares(reqs[r], "body")
        /\ reqs[r].body = ObjVal("userBadEmail")
        /\ ~CtxFails(reqs[r])
        /\ reqs[r].nextCalls = <<ZodError(RouteOf(reqs[r]).body, reqs[r].body)>>
        /\ reqs[r].handlerCalls = <<>>

(* C7: in a route callback every failure (context factory, request         *)
(* validation, handler, response validation) is passed, as the same error  *)
(* value, to next exactly once, with no response sent, and never escapes   *)
(* the callback; every request ends in exactly one of: a JSON response     *)
(* sent, next called with an error, a 405 sent.                            *)
C7_FailuresGoToNextOnce ==
    \A r \in Reqs :
        LET rq == reqs[r]
            failed(e) == rq.pc = "done" /\ rq.nextCalls = <<e>> /\ rq.sent = <<>>
        IN  InRoute(rq)
            => /\ rq.unhandled = <<>>
               /\ Len(rq.nextCalls) + Len(rq.sent) <= 1
               /\ (~QueryMismatch(rq) /\ CtxFails(rq)) => failed(CtxError)
               /\ (~QueryMismatch(rq) /\ ~CtxFails(rq) /\ ViolatesRequestSchema(rq))
                  => failed(RequestSchemaError(rq))
               /\ rq.handlerResult.kind = "threw" => failed(rq.handlerResult.error)
               /\ ( /\ rq.handlerResult.kind = "returned"
                    /\ router[rq.layer].validation
                    /\ ~SchemaAccepts(RouteOf(rq).response, rq.handlerResult.value) )
                  => failed(ZodError(RouteOf(rq).response, rq.handlerResult.value))
               /\ rq.pc = "done"
                  => \/ /\ rq.nextCalls = <<>>
                        /\ Len(rq.sent) = 1
                        /\ rq.sent[1].type = "json"
                        /\ rq.sent[1].status = StatusOk
                     \/ /\ Len(rq.nextCalls) = 1
                        /\ rq.sent = <<>>
                     \/ /\ rq.nextCalls = <<>>
                        /\ Len(rq.sent) = 1
                        /\ rq.sent[1].type = "text"
                        /\ rq.sent[1].status = MethodNotAllowed

(* The handler rejected and its error went to next.                        *)
C7_Witness ==
    \E r \in Reqs :
        /\ InRoute(reqs[r])
        /\ reqs[r].handlerResult = Threw([name |-> "RangeError", message |-> <<"handler failed">>])
        /\ reqs[r].nextCalls = <<[name |-> "RangeError", message |-> <<"handler failed">>]>>
        /\ reqs[r].sent = <<>>

(* C8: a request that reaches the callback of a QUERY route with another   *)
(* HTTP method is answered with 405 directly: the context factory, the     *)
(* validation and the handler are never invoked and next is not called.    *)
C8_QueryRouteRejectsOtherMethods ==
    \A r \in Reqs :
        LET rq == reqs[r]
        IN  (InRoute(rq) /\ QueryMismatch(rq))
            => /\ rq.pc = "done"
               /\ rq.sent = <<Text(405, StrVal(<<"Method Not Allowed">>))>>
               /\ rq.ctxCalls = 0
               /\ rq.applied = <<>>
               /\ rq.handlerCalls = <<>>
               /\ rq.handlerResult.kind = "pending"
               /\ rq.nextCalls = <<>>

(* A GET on the QUERY route's path, with a context factory that would      *)
(* throw and a query that would fail validation.                           *)
C8_Witness ==
    \E r \in Reqs :
        /\ InRoute(reqs[r])
        /\ router[reqs[r].layer].method = "QUERY"
        /\ reqs[r].method = "GET"
        /\ CtxFails(reqs[r])
        /\ reqs[r].query = ObjVal("queryBad")
        /\ Len(reqs[r].sent) = 1
        /\ reqs[r].sent[1].status = 405

CapturedFrom(url) ==
    CASE url = <<"/", "user", "/", "7">> -> (<<"id">> :> StrVal(<<"7">>))
      [] url = <<"/", "user", "/", "7", "/", "post", "/", "9">> ->
            (<<"id">> :> StrVal(<<"7">>)) @@ (<<"postId">> :> StrVal(<<"9">>))
      [] url = <<"/", "type", "/", "x">> -> (<<"constructor">> :> StrVal(<<"x">>))
      [] url = <<"/", "nope">> -> (<<"key">> :> StrVal(<<"nope">>))
      [] url = SchemaPath -> (<<"key">> :> StrVal(<<"__schema">>))
      [] OTHER -> EmptyObject

(* C15: the data object a handler is called with always has `params`, the  *)
(* router-captured path parameters; it has `body` if and only if the route *)
(* declares a body schema and `queryParams` if and only if it declares a   *)
(* queryParams schema; when present they are the schema's parsed output    *)
(* (unknown keys stripped), not the raw request values.                    *)
C15_HandlerDataShape ==
    \A r \in Reqs :
        \A i \in 1..Len(reqs[r].handlerCalls) :
            LET rq == reqs[r]
                data == rq.handlerCalls[i].data
            IN  /\ "params" \in DOMAIN data
                /\ data["params"] = [type |-> "object", props |-> CapturedFrom(rq.url)]
                /\ DOMAIN data["params"].props = ParamNameSet(router[rq.layer].route)
                /\ "body" \in DOMAIN data <=> RouteDeclares(rq, "body")
                /\ "queryParams" \in DOMAIN data <=> RouteDeclares(rq, "queryParams")
                /\ "body" \in DOMAIN data
                   => /\ SchemaAccepts(RouteOf(rq).body, rq.body)
                      /\ data["body"] = IF rq.body = ObjVal("userExtra") THEN ObjVal("user")
                                        ELSE rq.body
                /\ "queryParams" \in DOMAIN data
                   => /\ SchemaAccepts(RouteOf(rq).queryParams, rq.query)
                      /\ data["queryParams"] = rq.query

(* PUT /user/7 with a body carrying an unknown key: the handler got the    *)
(* stripped body, the captured id and no queryParams.                      *)
C15_Witness ==
    \E r \in Reqs :
        /\ reqs[r].method = "PUT"
        /\ reqs[r].url = <<"/", "user", "/", "7">>
        /\ reqs[r].body = ObjVal("userExtra")
        /\ Len(reqs[r].handlerCalls) = 1
        /\ reqs[r].handlerCalls[1].data["body"] = ObjVal("user")
        /\ reqs[r].handlerCalls[1].data["params"].props = (<<"id">> :> StrVal(<<"7">>))
        /\ DOMAIN reqs[r].handlerCalls[1].data = {"params", "body"}

(* C20: the `validation` option of registerExpressRoutes defaults to       *)
(* false: when it is not passed, the handler's return value is sent as the *)
(* response as it is, without being validated against the response schema. *)
C20_ServerValidationDefaultsOff ==
    \A r \in Reqs :
        LET rq == reqs[r]
        IN  ( /\ serverCfg.validation = Undefined
              /\ InRoute(rq)
              /\ rq.handlerResult.kind = "returned" )
            => /\ rq.sent = <<Json(200, rq.handlerResult.value)>>
               /\ rq.nextCalls = <<>>
               /\ \A i \in 1..Len(rq.applied) : rq.applied[i].schema # RouteOf(rq).response

(* The request schemas a route applies, in the order the callback applies  *)
(* them.                                                                   *)
RequestApplications(rq) ==
    (IF RouteDeclares(rq, "body")
     THEN <<Application(RouteOf(rq).body, rq.body)>> ELSE <<>>)
    \o (IF RouteDeclares(rq, "queryParams")
        THEN <<Application(RouteOf(rq).queryParams, rq.query)>> ELSE <<>>)

IsPrefix(s, t) == Len(s) <= Len(t) /\ s = SubSeq(t, 1, Len(s))

(* C22: within one request the steps are context factory, body validation, *)
(* query validation, handler (awaited), response validation, send: nothing *)
(* is validated before the context factory returned, the query is not      *)
(* validated before the body was accepted, the handler is invoked only     *)
(* after the factory returned and every declared request schema accepted   *)
(* its input, and the response is validated and sent only once the         *)
(* handler's result is available.                                          *)
C22_ServerStepOrder ==
    \A r \in Reqs :
        LET rq == reqs[r]
            requestApps == RequestApplications(rq)
        IN  (InRoute(rq) /\ ~QueryMismatch(rq))
            => /\ rq.applied # <<>>
                  => ~CtxFails(rq) /\ (serverCfg.ctx = "factory" => rq.ctxCalls = 1)
               /\ \/ IsPrefix(rq.applied, requestApps)
                  \/ /\ rq.handlerResult.kind = "returned"
                     /\ rq.applied = Append(requestApps,
                            Application(RouteOf(rq).response, rq.handlerResult.value))
               /\ (RouteDeclares(rq, "body") /\ ~SchemaAccepts(RouteOf(rq).body, rq.body))
                  => Len(rq.applied) <= 1
               /\ rq.handlerCalls # <<>>
                  => /\ Len(rq.handlerCalls) = 1
                     /\ ~CtxFails(rq)
                     /\ serverCfg.ctx = "factory"
                        => rq.ctxCalls = 1 /\ rq.handlerCalls[1].ctx = "context"
                     /\ ~ViolatesRequestSchema(rq)
                     /\ IsPrefix(requestApps, rq.applied)
               /\ rq.pc = "awaitHandler"
                  => /\ rq.handlerCalls # <<>>
                     /\ rq.handlerResult = Pending
                     /\ rq.applied = requestApps
                     /\ rq.sent = <<>>
               /\ rq.sent # <<>>
                  => /\ rq.handlerCalls # <<>>
                     /\ rq.handlerResult.kind = "returned"
                     /\ router[rq.layer].validation
                        => rq.applied = Append(requestApps,
                              Application(RouteOf(rq).response, rq.handlerResult.value))
                     /\ rq.sent = << Json(StatusOk,
                            IF router[rq.layer].validation
                            THEN SchemaOutput(RouteOf(rq).response, rq.handlerResult.value)
                            ELSE rq.handlerResult.value) >>

(* A request that went through all six steps: factory, body and query     *)
(* accepted, handler settled, response accepted and sent.                  *)
C22_Witness ==
    \E r \in Reqs :
        /\ InRoute(reqs[r]) /\ reqs[r].pc = "done"
        /\ serverCfg.ctx = "factory" /\ reqs[r].ctxCalls = 1
        /\ Len(reqs[r].applied) = 3
        /\ Len(reqs[r].handlerCalls) = 1
        /\ reqs[r].sent # <<>>

(* The request's method M is not QUERY and some path template registered   *)
(* both under M and under QUERY matches the request's URL.                 *)
SharedWithQuery(rq) ==
    /\ rq.method \in (DOMAIN Routes) \ {"QUERY"}
    /\ \E route \in DOMAIN Routes[rq.method] \cap DOMAIN Routes["QUERY"] :
          MatchFrom(route, 1, rq.url, 1, EmptyObject).ok

(* C24: a request with method M to a path registered under both M and      *)
(* QUERY reaches M's callback and is never answered 405 by the QUERY       *)
(* guard; in the router every QUERY catch-all layer comes after every      *)
(* layer of another method.                                                *)
C24_MethodRouteBeforeQueryGuard ==
    /\ \A i, j \in 1..Len(router) :
          (router[i].kind = "route" /\ router[j].kind = "route"
           /\ router[i].method = "QUERY" /\ router[j].method # "QUERY") => j < i
    /\ \A r \in Reqs :
          LET rq == reqs[r]
          IN  (rq.pc # "idle" /\ SharedWithQuery(rq))
              => /\ InRoute(rq)
                 /\ router[rq.layer].method = rq.method
                 /\ router[rq.layer].route \in DOMAIN Routes["QUERY"]
                 /\ \A k \in 1..Len(rq.sent) : rq.sent[k].status # MethodNotAllowed
                 /\ (~CtxFails(rq) /\ ~ViolatesRequestSchema(rq))
                    => Len(rq.handlerCalls) = 1

(* POST /user, registered under POST and under QUERY, answered by the POST *)
(* handler's value.                                                        *)
C24_Witness ==
    \E r \in Reqs :
        /\ reqs[r].pc = "done" /\ SharedWithQuery(reqs[r])
        /\ Len(reqs[r].handlerCalls) = 1
        /\ reqs[r].sent # <<>> /\ reqs[r].sent[1].type = "json"

(* C23: with schemaFilePath set, a GET request to /__schema is always      *)
(* answered with the textual schema snapshot, whatever routes the table    *)
(* contains: it reaches the schema endpoint, never a route's callback (a   *)
(* user handler or the QUERY 405 guard), and once finished it has been     *)
(* sent the snapshot.                                                      *)
C23_SchemaEndpointAlwaysAnswers ==
    \A r \in Reqs :
        LET rq == reqs[r]
        IN  ( /\ Truthy(serverCfg.schemaFilePath)
              /\ rq.pc # "idle" /\ rq.method = "GET" /\ rq.url = SchemaPath )
            => /\ rq.layer # 0
               /\ router[rq.layer].kind = "schema"
               /\ rq.handlerCalls = <<>>
               /\ \A k \in 1..Len(rq.sent) : rq.sent[k].status # MethodNotAllowed
               /\ rq.pc = "done"
                  => rq.sent = <<Text(StatusOk, StrVal(<<"schema text">>))>>

----------------------------------------------------------------------------
(* Claims about concurrent calls and requests (ConcurrentSpec).            *)

(* C13: there are no retries: in any client call the transport and the     *)
(* header function are each invoked at most once, and in any server        *)
(* request the handler is invoked at most once and a response is sent at   *)
(* most once, whatever fails; a call the transport rejected has invoked it *)
(* once, a request whose handler failed has invoked it once.               *)
C13_NoRetries ==
    /\ \A c \in DOMAIN calls :
          /\ Len(calls[c].fetchCalls) <= 1
          /\ calls[c].headerCalls <= 1
          /\ Len(calls[c].resolved) <= 1
          /\ (calls[c].pc = "done" /\ calls[c].outcome = Threw(NetworkError))
             => Len(calls[c].fetchCalls) = 1
    /\ \A r \in DOMAIN reqs :
          /\ Len(reqs[r].handlerCalls) <= 1
          /\ Len(reqs[r].sent) <= 1
          /\ reqs[r].handlerResult.kind = "threw"
             => Len(reqs[r].handlerCalls) = 1 /\ reqs[r].sent = <<>>

(* The transport rejected one call and another call was answered 404: each *)
(* invoked the transport once.                                             *)
C13_Witness ==
    /\ DOMAIN calls = ConcurrentCalls
    /\ calls["c1"].pc = "done"
    /\ calls["c1"].outcome = Threw(NetworkError)
    /\ Len(calls["c1"].fetchCalls) = 1
    /\ calls["c2"].pc = "done"
    /\ calls["c2"].response.status = 404
    /\ Len(calls["c2"].fetchCalls) = 1

(* What a call hands to the transport and what it ends with are decided by *)
(* its own arguments, the configuration and its own transport result.      *)
OwnCallOutcome(k) ==
    /\ k.fetchCalls # <<>>
       => /\ k.fetchCalls[1].url = k.url
          /\ k.fetchCalls[1].init.method = k.method
          /\ k.body.type # "undefined"
             => k.fetchCalls[1].init.body = JSONStringify(k.body)
          /\ \A h \in DOMAIN k.resolved[1] :
                k.fetchCalls[1].init.headers[h] = k.resolved[1][h]
    /\ (Answered(k) /\ k.response = [status |-> 404, body |-> JSONStringify(ObjVal("httpError"))])
       => k.outcome = Threw([name |-> "Error", message |-> <<"not found">>])
    /\ (Answered(k) /\ SuccessStatus(k) /\ ~HasRoute(k.method, k.path))
       => k.outcome.kind = "threw"
    /\ (Answered(k) /\ SuccessStatus(k) /\ VoidRoute(k))
       => k.outcome = Returned(Undefined)
    /\ ( /\ Answered(k) /\ SuccessStatus(k)
         /\ HasRoute(k.method, k.path) /\ ~VoidRoute(k)
         /\ k.response.body = JSONStringify(ObjVal("user")) )
       => k.outcome = Returned(ObjVal("user"))

(* What a request's handler is given and what the request ends with are    *)
(* decided by the request itself, the configuration and its own handler's  *)
(* result.                                                                 *)
OwnRequestOutcome(rq) ==
    InRoute(rq)
    => /\ QueryMismatch(rq) => (Len(rq.sent) = 1 /\ rq.sent[1].status = 405)
       /\ rq.handlerCalls # <<>>
          => rq.handlerCalls[1].data["params"].props = CapturedFrom(rq.url)
       /\ rq.handlerResult.kind = "threw"
          => rq.nextCalls = <<rq.handlerResult.error>>
       /\ (rq.handlerResult = Returned(ObjVal("user")) /\ RouteOf(rq).response # "Void")
          => rq.sent = <<Json(200, ObjVal("user"))>>

(* A step changes one call or one request, and nothing the calls share.    *)
OneCallOrRequestChanges ==
    /\ clientCfg' = clientCfg
    /\ serverCfg' = serverCfg
    /\ router' = router
    /\ DOMAIN calls' = DOMAIN calls
    /\ DOMAIN reqs' = DOMAIN reqs
    /\ \A c, d \in DOMAIN calls :
          (c # d /\ calls'[c] # calls[c]) => calls'[d] = calls[d]
    /\ \A r, q \in DOMAIN reqs :
          (r # q /\ reqs'[r] # reqs[r]) => reqs'[q] = reqs[q]

(* C14: concurrent calls and concurrent requests are independent under     *)
(* every interleaving of their awaits: each ends as its own arguments, the *)
(* configuration and its own transport or handler result decide, and no    *)
(* step writes to the configuration, the router or another call's or       *)
(* request's state.                                                        *)
C14_ConcurrentCallsIndependent ==
    /\ [](/\ \A c \in DOMAIN calls : OwnCallOutcome(calls[c])
          /\ \A r \in DOMAIN reqs : OwnRequestOutcome(reqs[r]))
    /\ [][OneCallOrRequestChanges]_vars

(* Two calls of one client: one was answered 404 and raised, the other     *)
(* was answered 200 and returned its own payload.                          *)
C14_Witness ==
    /\ DOMAIN calls = ConcurrentCalls
    /\ calls["c1"].response.status = 404
    /\ calls["c1"].outcome.kind = "threw"
    /\ calls["c2"].response = [status |-> 200, body |-> JSONStringify(ObjVal("user"))]
    /\ calls["c2"].outcome = Returned(ObjVal("user"))
    /\ calls["c1"].method # calls["c2"].method

====
